---- MODULE Spec2Model ----
(***************************************************************************)
(* A model of eight pieces of Nuclide:                                     *)
(*   - the RemoteConnection registry (hostname + path -> connection),      *)
(*   - the generated UnionTypes service proxy,                             *)
(*   - the react-native-node-executor Child (Rx pipeline around a forked   *)
(*     executor process),                                                  *)
(*   - the atom-script runner,                                             *)
(*   - the DiffViewModel of the diff view,                                 *)
(*   - createMessage for ASL records,                                      *)
(*   - getUndeclaredJSXIdentifiers,                                        *)
(*   - the main module of fuzzy-native.                                    *)
(* Each piece has its own specification; the variables of the other        *)
(* pieces stay at their initial value.                                     *)
(***************************************************************************)
EXTENDS Integers, Sequences, FiniteSets, TLC

VARIABLES
  connections,   \* ServerConnection registry: hostname -> "absent" marker or the server's list of connections
  lookup,        \* the last RemoteConnection lookup: its query and what it returned
  proxyCall,     \* the proxy function call in progress: function name and arguments
  marshalled,    \* per argument position: the state and value of its _client.marshal promise
  settleOrder,   \* argument positions in the order their marshal promises settled
  remoteCalls,   \* the _client.callRemoteFunction invocations made for the call, in order
  remoteResult,  \* the promise returned by _client.callRemoteFunction
  returned,      \* the promise the proxy function returned to its caller
  trace,         \* what the call did so far, in order
  fork,          \* the promise of forkWithExecEnvironment: "pending" or "resolved"
  procSubs,      \* subscribers of process$ not yet notified, in subscription order
  execScriptMessageId,  \* Child._execScriptMessageId
  input,         \* the pipeline behind _input$: phase, buffered window, combineLatest slots
  issued,        \* messages pushed into _input$ by execScript / execCall, in order
  issuedEarly,   \* how many of them were pushed while the fork promise was pending
  sent,          \* messages passed to process.send, in order
  listeners,     \* which event listeners are attached to the process; the eval chain's slots
  emitted,       \* pids emitted as 'eval_application_script', in order
  received,      \* 'message' events the executor process emitted, in order
  replies,       \* onReply(replyId, result) calls, in order
  proc,          \* the executor process: closed, process.kill() calls, messages replied to
  closedPromise, \* Child._closed
  kills,         \* Child.kill() calls: made, made before the fork resolved, and resolved
  argv,          \* atom-script: the command line arguments after the script name
  runner,        \* atom-script: where the runner is, its server, the Atom process, its exit
  socketIn,      \* atom-script: chunks received on the domain socket, in order
  atomWrote,     \* atom-script: chunks the Atom process wrote to its stdout / stderr, in order
  stdoutLog,     \* atom-script: chunks written to process.stdout, in order
  stderrLog,     \* atom-script: chunks written to process.stderr, in order
  state,         \* DiffViewModel._state
  emissions,     \* DiffViewModel: the states seen by 'did-update-state' listeners in the last step
  activeStack,   \* DiffViewModel._activeRepositoryStack (0: null)
  loads,         \* DiffViewModel: the _loadCommitModeState() calls that are awaiting
  publishLoads,  \* DiffViewModel: how many _loadPublishModeState() calls are awaiting
  commits,       \* DiffViewModel: the commit() calls, in order, with their outcome
  stackCalls,    \* DiffViewModel: the commit / amend calls made on the active stack
  notifications, \* atom.notifications: what was added, in order
  template,      \* the template commit message of the repository
  project,       \* atom.project.getRepositories()
  repositoryStacks,        \* DiffViewModel._repositoryStacks
  repositorySubscriptions, \* DiffViewModel._repositorySubscriptions
  disposed,      \* the stacks and the subscriptions that were disposed
  created,       \* how many RepositoryStacks were created
  isActive,      \* DiffViewModel._isActive and whether the model was disposed
  stackFiles,    \* what each repository's stack reports as dirty and as commit-merge changes
  updated,       \* DiffViewModel: the last step ran _updateRepositories(), and the stacks before it
  diffCalls,     \* how many calls and events the DiffViewModel got
  aslRecord,     \* ASL: the record given to createMessage
  aslResult,     \* ASL: what createMessage returned or threw
  declaredIdentifiers, \* JSX: what getDeclaredIdentifiers(root, options) returned
  jsxIdentifiers,      \* JSX: what getJSXIdentifiers(root) returned
  visited,       \* JSX: the identifiers the loop has been through
  undeclared,    \* JSX: the set being built
  jsxReturned,   \* JSX: whether getUndeclaredJSXIdentifiers has returned
  nativeLoad,    \* fuzzy-native: what require('../VendorLib/fuzzy-native') does here
  fallbackLoad,  \* fuzzy-native: what require('./FallbackMatcher') does here
  moduleCache,   \* fuzzy-native: module.exports of main.js in the require cache
  evaluation,    \* fuzzy-native: where the evaluation of main.js is, and for whom
  logged,        \* fuzzy-native: the logger.error calls, in order
  required       \* fuzzy-native: what each require of main.js got, in order

regVars == <<connections, lookup>>
proxyVars == <<proxyCall, marshalled, settleOrder, remoteCalls, remoteResult, returned, trace>>
childVars == <<fork, procSubs, execScriptMessageId, input, issued, issuedEarly, sent,
               listeners, emitted, received, replies, proc, closedPromise, kills>>
runnerVars == <<argv, runner, socketIn, atomWrote, stdoutLog, stderrLog>>
diffVars == <<state, emissions, activeStack, loads, publishLoads, commits, stackCalls,
              notifications, template, project, repositoryStacks, repositorySubscriptions,
              disposed, created, isActive, stackFiles, updated, diffCalls>>
aslVars == <<aslRecord, aslResult>>
jsxVars == <<declaredIdentifiers, jsxIdentifiers, visited, undeclared, jsxReturned>>
fuzzyVars == <<nativeLoad, fallbackLoad, moduleCache, evaluation, logged, required>>

vars == <<regVars, proxyVars, childVars, runnerVars, diffVars, aslVars, jsxVars, fuzzyVars>>

\* What the operations of one piece leave alone: the variables of the other pieces.
exceptRegistry == <<proxyVars, childVars, runnerVars, diffVars, aslVars, jsxVars, fuzzyVars>>
exceptProxy == <<regVars, childVars, runnerVars, diffVars, aslVars, jsxVars, fuzzyVars>>
exceptChild == <<regVars, proxyVars, runnerVars, diffVars, aslVars, jsxVars, fuzzyVars>>
exceptRunner == <<regVars, proxyVars, childVars, diffVars, aslVars, jsxVars, fuzzyVars>>
exceptDiff == <<regVars, proxyVars, childVars, runnerVars, aslVars, jsxVars, fuzzyVars>>
exceptAsl == <<regVars, proxyVars, childVars, runnerVars, diffVars, jsxVars, fuzzyVars>>
exceptJsx == <<regVars, proxyVars, childVars, runnerVars, diffVars, aslVars, fuzzyVars>>
exceptFuzzy == <<regVars, proxyVars, childVars, runnerVars, diffVars, aslVars, jsxVars>>

(***************************************************************************)
(* Bounds                                                                  *)
(***************************************************************************)
MaxRootDepth == 1     \* longest root directory path of a connection, in segments
MaxConns == 2         \* most connections registered over all servers
MaxMessages == 3      \* most execScript / execCall calls on a Child
MaxKills == 1         \* most kill() calls on a Child
MaxChunks == 3        \* most chunks the atom-script runner receives (socket and Atom's pipes)
MaxDiffCalls == 3     \* most calls and events a DiffViewModel gets
MaxRequires == 3      \* most require('fuzzy-native') calls

(***************************************************************************)
(* Generated service proxy (UnionTypes.proxy)                              *)
(***************************************************************************)
\* remoteModule.<fn> = function (arg0, ...): the declared type of each argument.
ArgTypes ==
  [UnionFunc |-> <<"SSU", "MixedUnion">>,
   ObjectUnionFunc |-> <<"Location">>,
   TypeFunc |-> <<"Type">>,
   MDUFunc |-> <<"MultipleDiscriminantUnion">>]

ProxyFunctions == DOMAIN ArgTypes
ArgValues == {"x", "y"}
RemoteValues == {"ok", "other"}

\* _client.marshal(value, type) resolves to the wire form of the value for the type.
Marshal(value, type) == [wire |-> value, as |-> type]

Pending == [state |-> "pending", value |-> "none"]
Resolved(v) == [state |-> "resolved", value |-> v]
Rejected(e) == [state |-> "rejected", value |-> e]
NoCall == [fn |-> "none", args |-> <<>>]

InFlight == proxyCall # NoCall

\* Variant (Promise.race-like): fulfilled once one input is fulfilled.
AnyFulfilled(ps) == \E i \in 1..Len(ps) : ps[i].state = "resolved"

\* Promise.all(promises): fulfilled once every input is fulfilled.
AllFulfilled(ps) == \A i \in 1..Len(ps) : ps[i].state = "resolved"

\* Variant: rejected only once every input is rejected.
AllRejected(ps) == \A i \in 1..Len(ps) : ps[i].state = "rejected"

\* Promise.all(promises): rejected as soon as one input is rejected.
AnyRejected(ps) == \E i \in 1..Len(ps) : ps[i].state = "rejected"

\* Variant: the values listed in the order the inputs settled.
AllValuesAsSettled(ps, order) == [i \in 1..Len(ps) |-> ps[order[i]].value]

\* Promise.all(promises): its value lists the inputs' values by position.
AllValues(ps, order) == [i \in 1..Len(ps) |-> ps[i].value]

\* "UnionTypes/UnionFunc" etc.
RemoteName(fn) == <<"UnionTypes", fn>>

ProxyIdle ==
  /\ proxyCall = NoCall
  /\ marshalled = <<>>
  /\ settleOrder = <<>>
  /\ remoteCalls = <<>>
  /\ remoteResult = Pending
  /\ returned = Pending
  /\ trace = <<>>

\* remoteModule.<fn>(arg0, ...): starts one _client.marshal per argument, in order,
\* and returns Promise.all([...]).then(args => _client.callRemoteFunction(...)).
CallProxy(fn, args) ==
  /\ ~InFlight \/ returned.state # "pending"
  /\ Len(args) = Len(ArgTypes[fn])
  /\ proxyCall' = [fn |-> fn, args |-> args]
  /\ marshalled' = [i \in 1..Len(args) |-> Pending]
  /\ settleOrder' = <<>>
  /\ remoteCalls' = <<>>
  /\ remoteResult' = Pending
  /\ returned' = Pending
  /\ trace' = [i \in 1..Len(args) |-> "marshal"]
  /\ UNCHANGED exceptProxy

\* The marshal promise of argument i resolves.
MarshalResolves(i) ==
  /\ InFlight
  /\ i \in 1..Len(marshalled)
  /\ marshalled[i].state = "pending"
  /\ marshalled' = [marshalled EXCEPT
                      ![i] = Resolved(Marshal(proxyCall.args[i], ArgTypes[proxyCall.fn][i]))]
  /\ settleOrder' = Append(settleOrder, i)
  /\ trace' = Append(trace, "marshalled")
  /\ UNCHANGED <<proxyCall, remoteCalls, remoteResult, returned, exceptProxy>>

\* The marshal promise of argument i rejects.
MarshalRejects(i) ==
  /\ InFlight
  /\ i \in 1..Len(marshalled)
  /\ marshalled[i].state = "pending"
  /\ marshalled' = [marshalled EXCEPT ![i] = Rejected("marshal error")]
  /\ settleOrder' = Append(settleOrder, i)
  /\ trace' = Append(trace, "marshal failed")
  /\ UNCHANGED <<proxyCall, remoteCalls, remoteResult, returned, exceptProxy>>

\* .then(args => _client.callRemoteFunction("UnionTypes/<fn>", "void", args))
ThenCallRemoteFunction ==
  /\ InFlight
  /\ returned.state = "pending"
  /\ remoteCalls = <<>>
  /\ AllFulfilled(marshalled)
  /\ remoteCalls' = Append(remoteCalls,
                          [name |-> RemoteName(proxyCall.fn),
                           returnType |-> "void",
                           args |-> AllValues(marshalled, settleOrder)])
  /\ trace' = Append(trace, "callRemoteFunction")
  /\ UNCHANGED <<proxyCall, marshalled, settleOrder, remoteResult, returned, exceptProxy>>

\* Promise.all rejects; .then has no rejection handler, so the returned promise rejects.
AllRejects ==
  /\ InFlight
  /\ returned.state = "pending"
  /\ remoteCalls = <<>>
  /\ AnyRejected(marshalled)
  /\ returned' = Rejected("marshal error")
  /\ trace' = Append(trace, "rejected")
  /\ UNCHANGED <<proxyCall, marshalled, settleOrder, remoteCalls, remoteResult, exceptProxy>>

\* The promise of callRemoteFunction resolves; the returned promise adopts its value.
RemoteResolves(v) ==
  /\ InFlight
  /\ remoteCalls # <<>>
  /\ remoteResult.state = "pending"
  /\ remoteResult' = Resolved(v)
  /\ returned' = Resolved(v)
  /\ trace' = Append(trace, "resolved")
  /\ UNCHANGED <<proxyCall, marshalled, settleOrder, remoteCalls, exceptProxy>>

\* The promise of callRemoteFunction rejects; the returned promise rejects with it.
RemoteRejects ==
  /\ InFlight
  /\ remoteCalls # <<>>
  /\ remoteResult.state = "pending"
  /\ remoteResult' = Rejected("remote error")
  /\ returned' = Rejected("remote error")
  /\ trace' = Append(trace, "rejected")
  /\ UNCHANGED <<proxyCall, marshalled, settleOrder, remoteCalls, exceptProxy>>

NextProxy ==
  \/ \E fn \in ProxyFunctions, args \in [1..1 -> ArgValues] \cup [1..2 -> ArgValues] :
        CallProxy(fn, args)
  \/ \E i \in 1..2 : MarshalResolves(i)
  \/ \E i \in 1..2 : MarshalRejects(i)
  \/ ThenCallRemoteFunction
  \/ AllRejects
  \/ \E v \in RemoteValues : RemoteResolves(v)
  \/ RemoteRejects

(***************************************************************************)
(* RemoteConnection registry                                               *)
(***************************************************************************)
Hostnames == {"foo.nuclide.com", "bar.nuclide.com"}
Ports == {"8192", "8919"}
Segments == {"home", "test"}

\* Absolute paths as the sequence of their segments: '/home/test' is <<"home", "test">>.
PathsUpTo(n) == UNION {[1..k -> Segments] : k \in 0..n}
RootPaths == PathsUpTo(MaxRootDepth)
FilePaths == PathsUpTo(MaxRootDepth + 1)

IsPrefix(s, t) == Len(s) <= Len(t) /\ SubSeq(t, 1, Len(s)) = s

Undefined == [kind |-> "undefined", host |-> "", root |-> <<>>, n |-> 0]
NoServer == [present |-> FALSE, conns |-> <<>>]

\* new RemoteConnection(server, path): the n-th connection made for the server.
RemoteConnection(h, root, n) == [kind |-> "connection", host |-> h, root |-> root, n |-> n]

NumConns == LET RECURSIVE Sum(_)
                Sum(S) == IF S = {} THEN 0
                          ELSE LET h == CHOOSE x \in S : TRUE
                               IN Len(connections[h].conns) + Sum(S \ {h})
            IN Sum(Hostnames)

\* RemoteConnection.getByHostname: the connections of the server registered for the host.
getByHostname(h) == IF connections[h].present THEN connections[h].conns ELSE <<>>

\* Variant: only a path equal to the root directory matches.
getByHostnameAndPathExact(h, p) ==
  LET cs == getByHostname(h)
      hits == {i \in 1..Len(cs) : cs[i].root = p}
  IN IF hits = {} THEN Undefined
     ELSE cs[CHOOSE i \in hits : \A j \in hits : i <= j]

\* Variant: a root directory below the path matches too.
getByHostnameAndPathEitherWay(h, p) ==
  LET cs == getByHostname(h)
      hits == {i \in 1..Len(cs) : IsPrefix(cs[i].root, p) \/ IsPrefix(p, cs[i].root)}
  IN IF hits = {} THEN Undefined
     ELSE cs[CHOOSE i \in hits : \A j \in hits : i <= j]

\* RemoteConnection.getByHostnameAndPath: the first connection of the host whose
\* root directory is the path or one of its ancestors; undefined when there is none.
getByHostnameAndPath(h, p) ==
  LET cs == getByHostname(h)
      hits == {i \in 1..Len(cs) : IsPrefix(cs[i].root, p)}
  IN IF hits = {} THEN Undefined
     ELSE cs[CHOOSE i \in hits : \A j \in hits : i <= j]

\* A nuclide:// URI as its tokens: nuclide://host:port/seg/seg...
RECURSIVE PathTokens(_)
PathTokens(p) == IF p = <<>> THEN <<>> ELSE <<"/", Head(p)>> \o PathTokens(Tail(p))

FormatUri(h, port, p) == <<"nuclide://", h, ":", port>> \o PathTokens(p)

\* remoteUri.parse: hostname, port and path of a URI.
ParseUri(uri) ==
  LET rest == SubSeq(uri, 5, Len(uri))
  IN [hostname |-> uri[2],
      port |-> uri[4],
      path |-> [i \in 1..(Len(rest) \div 2) |-> rest[2 * i]]]

\* Variant: the lookup only answers for the server's own port.
ServerPort == "8192"
getForUriOwnPort(uri) ==
  LET parsed == ParseUri(uri)
  IN IF parsed.port = ServerPort
     THEN getByHostnameAndPath(parsed.hostname, parsed.path)
     ELSE Undefined

\* RemoteConnection.getForUri
getForUri(uri) ==
  LET parsed == ParseUri(uri)
  IN getByHostnameAndPath(parsed.hostname, parsed.path)

NoLookup == [via |-> "none", host |-> "", port |-> "", path |-> <<>>, result |-> Undefined]

RegistryIdle ==
  /\ connections = [h \in Hostnames |-> NoServer]
  /\ lookup = NoLookup

\* testConnections.set(hostname, new ServerConnection({host, port}))
SetServer(h) ==
  /\ connections' = [connections EXCEPT ![h] = [present |-> TRUE, conns |-> <<>>]]
  /\ lookup' = NoLookup
  /\ UNCHANGED exceptRegistry

\* testConnection = new RemoteConnection(server, path); server.addConnection(testConnection)
AddConnection(h, root) ==
  /\ connections[h].present
  /\ NumConns < MaxConns
  /\ connections' = [connections EXCEPT ![h].conns =
                       Append(@, RemoteConnection(h, root, Len(@) + 1))]
  /\ lookup' = NoLookup
  /\ UNCHANGED exceptRegistry

\* testConnections.delete(hostname)
DeleteServer(h) ==
  /\ connections[h].present
  /\ connections' = [connections EXCEPT ![h] = NoServer]
  /\ lookup' = NoLookup
  /\ UNCHANGED exceptRegistry

\* A caller asks RemoteConnection.getByHostnameAndPath(h, p).
LookupByHostnameAndPath(h, p) ==
  /\ lookup' = [via |-> "getByHostnameAndPath", host |-> h, port |-> "", path |-> p,
                result |-> getByHostnameAndPath(h, p)]
  /\ UNCHANGED connections
  /\ UNCHANGED exceptRegistry

\* A caller asks RemoteConnection.getForUri(`nuclide://${h}:${port}${p}`).
LookupForUri(h, port, p) ==
  /\ lookup' = [via |-> "getForUri", host |-> h, port |-> port, path |-> p,
                result |-> getForUri(FormatUri(h, port, p))]
  /\ UNCHANGED connections
  /\ UNCHANGED exceptRegistry

NextRegistry ==
  \/ \E h \in Hostnames : SetServer(h)
  \/ \E h \in Hostnames, root \in RootPaths : AddConnection(h, root)
  \/ \E h \in Hostnames : DeleteServer(h)
  \/ \E h \in Hostnames, p \in FilePaths : LookupByHostnameAndPath(h, p)
  \/ \E h \in Hostnames, port \in Ports, p \in FilePaths : LookupForUri(h, port, p)



(***************************************************************************)
(* react-native-node-executor Child                                        *)
(*                                                                         *)
(* process$ = Rx.Observable.fromPromise(fork promise): every subscription  *)
(* registers its own reaction on the promise, so the subscribers are       *)
(* notified one after the other, in subscription order, each receiving the *)
(* process and then completion.  Other callbacks (execScript, execCall,    *)
(* kill, process events) may run between two notifications; a build in     *)
(* which the notifications run back to back shows a subset of these        *)
(* behaviours.                                                             *)
(***************************************************************************)
ProcessPid == "pid of executor.js"

\* execScript: this._input$.onNext({id, op: 'evalScript', data: {script, inject}})
ScriptMessage(id) == [id |-> id, op |-> "evalScript"]

\* execCall: this._input$.onNext({id, op: 'call', data: {method, arguments}})
CallMessage(id) == [id |-> id, op |-> "call"]

\* The 'message' event the executor emits in reply to the message with this id.
Reply(id) == [replyId |-> id, result |-> <<"result of", id>>]

\* The subscriptions to process$ the constructor makes, in the order it makes them:
\* _closed; output$ and process$ of the eval_application_script chain; output$ of
\* the onReply chain; takeUntil(process$), buffer(process$) and combineLatest(process$)
\* of the send chain.
ConstructorSubscribers ==
  <<"closed", "evalOutput", "evalProcess", "replyOutput",
    "takeUntil", "bufferBoundary", "sendProcess">>

ChildConstructed ==
  /\ fork = "pending"
  /\ procSubs = ConstructorSubscribers
  /\ execScriptMessageId = -1
  /\ input = [phase |-> "buffering", window |-> <<>>, latest |-> <<>>, hasProcess |-> FALSE]
  /\ issued = <<>>
  /\ issuedEarly = 0
  /\ sent = <<>>
  /\ listeners = [close |-> FALSE, eval |-> FALSE, evalProcess |-> FALSE, reply |-> FALSE]
  /\ emitted = <<>>
  /\ received = <<>>
  /\ replies = <<>>
  /\ proc = [closed |-> FALSE, killCalls |-> 0, replied |-> {}]
  /\ closedPromise = "pending"
  /\ kills = [made |-> 0, early |-> 0, resolved |-> 0]

\* .combineLatest(process$).subscribe(([message, process]) => process.send(message)):
\* a message arrives in the first slot; it is sent if the process slot is filled.
CombineLatestMessage(st, msg) ==
  [in |-> [st.in EXCEPT !.latest = <<msg>>],
   sent |-> IF st.in.hasProcess THEN Append(st.sent, msg) ELSE st.sent]

\* The process arrives in the second slot; the latest message, if any, is sent.
CombineLatestProcess(st) ==
  [in |-> [st.in EXCEPT !.hasProcess = TRUE],
   sent |-> IF st.in.latest # <<>> THEN Append(st.sent, st.in.latest[1]) ELSE st.sent]

\* .flatMap(x => x) of the buffered array: its messages, one after the other, into
\* the combineLatest.
RECURSIVE FlushBuffer(_, _)
FlushBuffer(st, msgs) ==
  IF msgs = <<>> THEN st
  ELSE FlushBuffer(CombineLatestMessage(st, Head(msgs)), Tail(msgs))

\* this._input$.onNext(msg): into the window while takeUntil(process$) is live,
\* nowhere while skipUntil(process$) is not yet open, into the combineLatest after.
InputOnNext(st, msg) ==
  CASE st.in.phase = "buffering" ->
         [in |-> [st.in EXCEPT !.window = Append(@, msg)], sent |-> st.sent]
    [] st.in.phase = "skipping" -> st
    [] st.in.phase = "open" -> CombineLatestMessage(st, msg)

Pipeline == [in |-> input, sent |-> sent]

Issue(msg) ==
  /\ Len(issued) < MaxMessages
  /\ issued' = Append(issued, msg)
  /\ issuedEarly' = IF fork = "pending" THEN issuedEarly + 1 ELSE issuedEarly
  /\ input' = InputOnNext(Pipeline, msg).in
  /\ sent' = InputOnNext(Pipeline, msg).sent

\* execScript(script, inject, id)
ExecScript ==
  /\ execScriptMessageId' = Len(issued) + 1
  /\ Issue(ScriptMessage(Len(issued) + 1))
  /\ UNCHANGED <<fork, procSubs, listeners, emitted, received, replies, proc,
                 closedPromise, kills, exceptChild>>

\* execCall(payload, id)
ExecCall ==
  /\ Issue(CallMessage(Len(issued) + 1))
  /\ UNCHANGED <<fork, procSubs, execScriptMessageId, listeners, emitted, received,
                 replies, proc, closedPromise, kills, exceptChild>>

\* The promise of forkWithExecEnvironment resolves with the child process.
ForkResolves ==
  /\ fork = "pending"
  /\ fork' = "resolved"
  /\ UNCHANGED <<procSubs, execScriptMessageId, input, issued, issuedEarly, sent,
                 listeners, emitted, received, replies, proc, closedPromise, kills,
                 exceptChild>>

\* The next subscriber of process$ is the one named, and can be notified.
NextToNotify(name) ==
  /\ fork = "resolved"
  /\ procSubs # <<>>
  /\ Head(procSubs) = name

\* process$.flatMap(process => Rx.Observable.fromEvent(process, 'close')) of _closed
NotifyClosed ==
  /\ NextToNotify("closed")
  /\ procSubs' = Tail(procSubs)
  /\ listeners' = [listeners EXCEPT !.close = TRUE]
  /\ UNCHANGED <<fork, execScriptMessageId, input, issued, issuedEarly, sent, emitted,
                 received, replies, proc, closedPromise, kills, exceptChild>>

\* output$ of the eval_application_script chain: fromEvent(process, 'message')
NotifyEvalOutput ==
  /\ NextToNotify("evalOutput")
  /\ procSubs' = Tail(procSubs)
  /\ listeners' = [listeners EXCEPT !.eval = TRUE]
  /\ UNCHANGED <<fork, execScriptMessageId, input, issued, issuedEarly, sent, emitted,
                 received, replies, proc, closedPromise, kills, exceptChild>>

\* .combineLatest(process$) of the eval_application_script chain
NotifyEvalProcess ==
  /\ NextToNotify("evalProcess")
  /\ procSubs' = Tail(procSubs)
  /\ listeners' = [listeners EXCEPT !.evalProcess = TRUE]
  /\ UNCHANGED <<fork, execScriptMessageId, input, issued, issuedEarly, sent, emitted,
                 received, replies, proc, closedPromise, kills, exceptChild>>

\* output$.subscribe(message => onReply(...)): fromEvent(process, 'message')
NotifyReplyOutput ==
  /\ NextToNotify("replyOutput")
  /\ procSubs' = Tail(procSubs)
  /\ listeners' = [listeners EXCEPT !.reply = TRUE]
  /\ UNCHANGED <<fork, execScriptMessageId, input, issued, issuedEarly, sent, emitted,
                 received, replies, proc, closedPromise, kills, exceptChild>>

\* this._input$.takeUntil(process$) completes: the window closes, buffer emits the
\* array, flatMap emits its messages, bufferedMessage$ completes and concat
\* subscribes to remainingMessages, whose skipUntil(process$) subscribes to process$.
NotifyTakeUntil ==
  /\ NextToNotify("takeUntil")
  /\ procSubs' = Append(Tail(procSubs), "skipUntil")
  /\ LET flushed == FlushBuffer(Pipeline, input.window)
     IN /\ input' = [flushed.in EXCEPT !.phase = "skipping", !.window = <<>>]
        /\ sent' = flushed.sent
  /\ UNCHANGED <<fork, execScriptMessageId, issued, issuedEarly, listeners, emitted,
                 received, replies, proc, closedPromise, kills, exceptChild>>

\* .buffer(process$): the window boundary; the windows have completed already.
NotifyBufferBoundary ==
  /\ NextToNotify("bufferBoundary")
  /\ procSubs' = Tail(procSubs)
  /\ UNCHANGED <<fork, execScriptMessageId, input, issued, issuedEarly, sent, listeners,
                 emitted, received, replies, proc, closedPromise, kills, exceptChild>>

\* .combineLatest(process$) of the send chain
NotifySendProcess ==
  /\ NextToNotify("sendProcess")
  /\ procSubs' = Tail(procSubs)
  /\ input' = CombineLatestProcess(Pipeline).in
  /\ sent' = CombineLatestProcess(Pipeline).sent
  /\ UNCHANGED <<fork, execScriptMessageId, issued, issuedEarly, listeners, emitted,
                 received, replies, proc, closedPromise, kills, exceptChild>>

\* this._input$.skipUntil(process$) opens
NotifySkipUntil ==
  /\ NextToNotify("skipUntil")
  /\ procSubs' = Tail(procSubs)
  /\ input' = [input EXCEPT !.phase = "open"]
  /\ UNCHANGED <<fork, execScriptMessageId, issued, issuedEarly, sent, listeners,
                 emitted, received, replies, proc, closedPromise, kills, exceptChild>>

\* kill(): this._process$.subscribe(process => { process.kill(); }); await this._closed
Kill ==
  /\ kills.made < MaxKills
  /\ kills' = [kills EXCEPT !.made = @ + 1,
                          !.early = IF fork = "pending" THEN @ + 1 ELSE @]
  /\ procSubs' = Append(procSubs, "kill")
  /\ UNCHANGED <<fork, execScriptMessageId, input, issued, issuedEarly, sent, listeners,
                 emitted, received, replies, proc, closedPromise, exceptChild>>

\* process => { process.kill(); }
NotifyKill ==
  /\ NextToNotify("kill")
  /\ procSubs' = Tail(procSubs)
  /\ proc' = [proc EXCEPT !.killCalls = @ + 1]
  /\ UNCHANGED <<fork, execScriptMessageId, input, issued, issuedEarly, sent, listeners,
                 emitted, received, replies, closedPromise, kills, exceptChild>>

\* _closed = ....first().toPromise(): resolved by the first 'close' event heard.
ClosedOnClose(promise, listening) == IF listening THEN "resolved" ELSE promise

\* The process emits 'close' (killed, or ended by itself).
ProcessCloses ==
  /\ fork = "resolved"
  /\ ~proc.closed
  /\ proc' = [proc EXCEPT !.closed = TRUE]
  /\ closedPromise' = ClosedOnClose(closedPromise, listeners.close)
  /\ UNCHANGED <<fork, procSubs, execScriptMessageId, input, issued, issuedEarly, sent,
                 listeners, emitted, received, replies, kills, exceptChild>>

\* Variant: kill() does not wait for _closed.
NotAwaited(promise) == TRUE

\* await this._closed
Awaited(promise) == promise = "resolved"

\* The promise kill() returned resolves.
KillResolves ==
  /\ kills.resolved < kills.made
  /\ Awaited(closedPromise)
  /\ kills' = [kills EXCEPT !.resolved = @ + 1]
  /\ UNCHANGED <<fork, procSubs, execScriptMessageId, input, issued, issuedEarly, sent,
                 listeners, emitted, received, replies, proc, closedPromise, exceptChild>>

\* Variant: no filter on the reply id.
IsAnyReply(message, scriptId) == TRUE

\* .filter(message => message.replyId === this._execScriptMessageId)
IsEvalReply(message, scriptId) == message.replyId = scriptId

\* Variant: only the first message is forwarded.
OnReplyCallsFirstOnly(log, message, listening) ==
  IF listening /\ log = <<>> THEN Append(log, <<message.replyId, message.result>>) ELSE log

\* output$.subscribe(message => { onReply(message.replyId, message.result); })
OnReplyCalls(log, message, listening) ==
  IF listening THEN Append(log, <<message.replyId, message.result>>) ELSE log

\* The executor replies to a message it was sent: the process emits 'message'.
\* Its listeners run in the order attached: the eval_application_script chain
\* (filter, first, combineLatest, map to pid, emit), then the onReply chain.
ExecutorReplies(i) ==
  /\ fork = "resolved"
  /\ ~proc.closed
  /\ i \in 1..Len(sent)
  /\ sent[i].id \notin proc.replied
  /\ LET message == Reply(sent[i].id)
         hit == listeners.eval /\ IsEvalReply(message, execScriptMessageId)
     IN /\ proc' = [proc EXCEPT !.replied = @ \cup {sent[i].id}]
        /\ received' = Append(received, [message |-> message, scriptId |-> execScriptMessageId])
        /\ listeners' = IF hit THEN [listeners EXCEPT !.eval = FALSE] ELSE listeners
        /\ emitted' = IF hit /\ listeners.evalProcess THEN Append(emitted, ProcessPid)
                      ELSE emitted
        /\ replies' = OnReplyCalls(replies, message, listeners.reply)
  /\ UNCHANGED <<fork, procSubs, execScriptMessageId, input, issued, issuedEarly, sent,
                 closedPromise, kills, exceptChild>>

NextChild ==
  \/ ExecScript
  \/ ExecCall
  \/ ForkResolves
  \/ NotifyClosed
  \/ NotifyEvalOutput
  \/ NotifyEvalProcess
  \/ NotifyReplyOutput
  \/ NotifyTakeUntil
  \/ NotifyBufferBoundary
  \/ NotifySendProcess
  \/ NotifySkipUntil
  \/ Kill
  \/ NotifyKill
  \/ ProcessCloses
  \/ KillResolves
  \/ \E i \in 1..MaxMessages : ExecutorReplies(i)

\* No notification of process$ is waiting to be delivered.
NoneOutstanding == fork = "pending" \/ procSubs = <<>>

\* The calls and process events of a Child whose notifications run back to back.
BackToBackExecScript == NoneOutstanding /\ ExecScript
BackToBackExecCall == NoneOutstanding /\ ExecCall
BackToBackKill == NoneOutstanding /\ Kill
BackToBackProcessCloses == NoneOutstanding /\ ProcessCloses
BackToBackKillResolves == NoneOutstanding /\ KillResolves
BackToBackExecutorReplies(i) == NoneOutstanding /\ ExecutorReplies(i)

NextChildBackToBack ==
  \/ BackToBackExecScript
  \/ BackToBackExecCall
  \/ ForkResolves
  \/ NotifyClosed
  \/ NotifyEvalOutput
  \/ NotifyEvalProcess
  \/ NotifyReplyOutput
  \/ NotifyTakeUntil
  \/ NotifyBufferBoundary
  \/ NotifySendProcess
  \/ NotifySkipUntil
  \/ BackToBackKill
  \/ NotifyKill
  \/ BackToBackProcessCloses
  \/ BackToBackKillResolves
  \/ \E i \in 1..MaxMessages : BackToBackExecutorReplies(i)

(***************************************************************************)
(* atom-script runner (bin script and its main module)                     *)
(***************************************************************************)
\* process.argv.slice(2): nothing, the script to run, or the script and an argument.
CommandLines == {<<>>, <<"script.js">>, <<"script.js", "arg">>}

\* 'Window load time: '
PREFIX == "Window load time: "

\* What a connection of the domain socket delivers: strings, as their pieces.
SocketData == {<<PREFIX, "12ms">>, <<"hello">>, <<"Window", " load">>}

\* What the Atom process writes to its own stdout and stderr.
AtomData == {[stream |-> "stdout", data |-> "atom says"],
             [stream |-> "stderr", data |-> "atom warns"]}

\* The code of the 'close' event of the Atom process: <<n>>, or <<>> (null) when a
\* signal ended it.
CloseCodes == {<<>>, <<0>>, <<1>>, <<2>>}

RunnerStart(args) ==
  /\ argv = args
  /\ runner = [pc |-> "load", server |-> "none", atom |-> "none",
               atomCode |-> <<>>, exitCode |-> <<>>]
  /\ socketIn = <<>>
  /\ atomWrote = <<>>
  /\ stdoutLog = <<>>
  /\ stderrLog = <<>>

RunnerIdle == RunnerStart(<<>>)

\* process.exit(code): a missing code (null) leaves process.exitCode, which is 0.
ProcessExitCode(code) == IF code = <<>> THEN <<0>> ELSE code

\* exit(code): if (server != null) { server.close(); }
ServerAfterExit(server) == IF server # "none" THEN "closed" ELSE server

\* function exit(code)
Exit(r, code) ==
  [r EXCEPT !.pc = "exited",
            !.server = ServerAfterExit(r.server),
            !.exitCode = ProcessExitCode(code)]

\* data.substring(0, PREFIX.length) !== PREFIX
IsForwarded(data) == ~(Len(data) > 0 /\ data[1] = PREFIX)

\* Variant: Atom's stdout is passed on to stdout.
AtomStreamPassedOn(stream) == stream

\* atomTest.stdout.on('data', writeToStderr); atomTest.stderr.on('data', writeToStderr)
AtomStreamTarget(stream) == "stderr"

Received == Len(socketIn) + Len(atomWrote)

\* var entryPoint = process.argv[2]; if (typeof entryPoint !== 'string') { ... exit(1) }
LoadWithoutEntryPoint ==
  /\ runner.pc = "load"
  /\ argv = <<>>
  /\ stderrLog' = Append(stderrLog, [from |-> "runner",
                                     data |-> "First argument must be a path to a file to run."])
  /\ runner' = Exit(runner, <<1>>)
  /\ UNCHANGED <<argv, socketIn, atomWrote, stdoutLog, exceptRunner>>

\* The module loads with an entry point; main() creates the server and listens.
Main ==
  /\ runner.pc = "load"
  /\ argv # <<>>
  /\ runner' = [runner EXCEPT !.pc = "listening", !.server = "listening"]
  /\ UNCHANGED <<argv, socketIn, atomWrote, stdoutLog, stderrLog, exceptRunner>>

\* server.listen({path: domainSocket}, runAtom): child_process.spawn('atom', args)
RunAtom ==
  /\ runner.pc = "listening"
  /\ runner' = [runner EXCEPT !.pc = "running", !.atom = "running"]
  /\ UNCHANGED <<argv, socketIn, atomWrote, stdoutLog, stderrLog, exceptRunner>>

\* connection.on('data', function(bufferOrString) { ... process.stdout.write(...) })
ConnectionData(data) ==
  /\ runner.pc = "running"
  /\ Received < MaxChunks
  /\ socketIn' = Append(socketIn, data)
  /\ stdoutLog' = IF IsForwarded(data)
                  THEN Append(stdoutLog, [from |-> "socket", data |-> data])
                  ELSE stdoutLog
  /\ UNCHANGED <<argv, runner, atomWrote, stderrLog, exceptRunner>>

\* The Atom process writes to its stdout or stderr: the 'data' listener runs.
AtomWrites(chunk) ==
  /\ runner.pc = "running"
  /\ Received < MaxChunks
  /\ atomWrote' = Append(atomWrote, chunk)
  /\ LET written == [from |-> chunk.stream, data |-> chunk.data]
     IN /\ stderrLog' = IF AtomStreamTarget(chunk.stream) = "stderr"
                        THEN Append(stderrLog, written) ELSE stderrLog
        /\ stdoutLog' = IF AtomStreamTarget(chunk.stream) = "stdout"
                        THEN Append(stdoutLog, written) ELSE stdoutLog
  /\ UNCHANGED <<argv, runner, socketIn, exceptRunner>>

\* atomTest.on('close', exit)
AtomCloses(code) ==
  /\ runner.pc = "running"
  /\ runner' = Exit([runner EXCEPT !.atom = "closed", !.atomCode = code], code)
  /\ UNCHANGED <<argv, socketIn, atomWrote, stdoutLog, stderrLog, exceptRunner>>

NextRunner ==
  \/ LoadWithoutEntryPoint
  \/ Main
  \/ RunAtom
  \/ \E data \in SocketData : ConnectionData(data)
  \/ \E chunk \in AtomData : AtomWrites(chunk)
  \/ \E code \in CloseCodes : AtomCloses(code)

(***************************************************************************)
(* DiffViewModel                                                           *)
(***************************************************************************)
\* DiffMode, CommitMode, CommitModeState, PublishModeState (constants.js)
DiffModes == {"BROWSE_MODE", "COMMIT_MODE", "PUBLISH_MODE"}
CommitModes == {"COMMIT", "AMEND"}

\* A value of state.commitMessage: null, undefined or a string (as its pieces).
Null == [type |-> "null", value |-> <<>>]
UndefinedMessage == [type |-> "undefined", value |-> <<>>]
Str(pieces) == [type |-> "string", value |-> pieces]

\* What getTemplateCommitMessage() resolves to: none, plain, or with a newline string.
Templates == {Null, Str(<<"Summary: ">>), Str(<<"Summary: ", "\\n", "Test Plan: ">>)}

\* The description of the head revision (the last of revisions).
HeadDescription == Str(<<"Fix the bug", "\n", "Differential Revision: D1">>)

\* The message the user passes to commit(message).
CommitMessages == {Str(<<"My commit">>)}

\* message.replace(/\\n/g, '\n')
convertNewlines(message) ==
  Str([i \in 1..Len(message.value) |->
         IF message.value[i] = "\\n" THEN "\n" ELSE message.value[i]])

\* What a _loadCommitModeState() that read this commit mode loads, when it succeeds.
LoadedMessage(mode) ==
  IF mode = "COMMIT"
  THEN IF template # Null THEN convertNewlines(template) ELSE template
  ELSE HeadDescription

\* notifyInternalError(error) and atom.notifications.addError / addSuccess
InternalError == [type |-> "error", text |-> "Internal Error", commit |-> 0]
CommitError(i) == [type |-> "error", text |-> "Error creating commit", commit |-> i]
CommitSuccess(i, mode) ==
  [type |-> "success",
   text |-> IF mode = "COMMIT" THEN "Commit created" ELSE "Commit amended",
   commit |-> i]

\* _updateCompareChangedStatus(dirtyFileChanges, commitMergeFileChanges): the new state
UpdateCompareChangedStatus(s, dirtyFileChanges, commitMergeFileChanges) ==
  [s EXCEPT !.dirtyFileChanges = dirtyFileChanges,
            !.commitMergeFileChanges = commitMergeFileChanges,
            !.compareFileChanges = IF s.viewMode = "COMMIT_MODE"
                                   THEN dirtyFileChanges
                                   ELSE commitMergeFileChanges]

\* _loadCommitModeState() up to its await, from state s: the states it sets, the
\* load it leaves awaiting, and what it notifies. Without an active stack the
\* template load throws at once; the load of the latest message rejects later.
LoadCommitModeState(s) ==
  LET loading == [s EXCEPT !.commitModeState = "LOADING_COMMIT_MESSAGE"]
  IN IF loading.commitMode = "COMMIT" /\ activeStack = 0
     THEN [states |-> <<loading, [loading EXCEPT !.commitMessage = UndefinedMessage,
                                                  !.commitModeState = "READY"]>>,
           awaiting |-> {}, publishing |-> 0,
           notes |-> <<InternalError>>]
     ELSE [states |-> <<loading>>,
           awaiting |-> {[id |-> diffCalls + 1, commitMode |-> loading.commitMode,
                          stack |-> activeStack]},
           publishing |-> 0,
           notes |-> <<>>]

\* _loadPublishModeState() up to its await: the state it sets.
LoadPublishModeState(s) ==
  [s EXCEPT !.publishModeState = "LOADING_PUBLISH_MESSAGE", !.publishMessage = Null]

\* _loadModeState() from state s, in the shape of LoadCommitModeState
LoadModeState(s) ==
  IF s.viewMode = "COMMIT_MODE" THEN LoadCommitModeState(s)
  ELSE IF s.viewMode = "PUBLISH_MODE"
       THEN [states |-> <<LoadPublishModeState(s)>>, awaiting |-> {}, publishing |-> 1,
             notes |-> <<>>]
       ELSE [states |-> <<>>, awaiting |-> {}, publishing |-> 0, notes |-> <<>>]

Last(seq) == seq[Len(seq)]

\* What the calls that touch neither the repositories nor the commits leave alone.
repoVars == <<template, project, repositoryStacks, repositorySubscriptions, disposed,
              created, isActive, stackFiles>>
commitVars == <<commits, stackCalls>>

\* A call or an event that ran no _updateRepositories().
Called ==
  /\ diffCalls < MaxDiffCalls
  /\ diffCalls' = diffCalls + 1
  /\ updated' = [ran |-> FALSE, before |-> repositoryStacks]

\* setCommitMode(commitMode)
setCommitMode(commitMode) ==
  LET load == LoadCommitModeState([state EXCEPT !.commitMode = commitMode])
  IN /\ Called
     /\ emissions' = <<[state EXCEPT !.commitMode = commitMode]>> \o load.states
     /\ state' = Last(load.states)
     /\ loads' = loads \cup load.awaiting
     /\ notifications' = notifications \o load.notes
     /\ UNCHANGED <<activeStack, publishLoads, commitVars, repoVars, exceptDiff>>

\* The await of a _loadCommitModeState() resolves: its finally block runs.
LoadResolves(load) ==
  /\ load \in loads
  /\ load.stack # 0
  /\ loads' = loads \ {load}
  /\ state' = [state EXCEPT !.commitMessage = LoadedMessage(load.commitMode),
                            !.commitModeState = "READY"]
  /\ emissions' = <<state'>>
  /\ updated' = [ran |-> FALSE, before |-> repositoryStacks]
  /\ UNCHANGED <<activeStack, publishLoads, commitVars, notifications, repoVars,
                 diffCalls, exceptDiff>>

\* The await of a _loadCommitModeState() rejects: catch, then the finally block.
LoadRejects(load) ==
  /\ load \in loads
  /\ loads' = loads \ {load}
  /\ notifications' = Append(notifications, InternalError)
  /\ state' = [state EXCEPT !.commitMessage = UndefinedMessage,
                            !.commitModeState = "READY"]
  /\ emissions' = <<state'>>
  /\ updated' = [ran |-> FALSE, before |-> repositoryStacks]
  /\ UNCHANGED <<activeStack, publishLoads, commitVars, repoVars, diffCalls, exceptDiff>>

\* Variant: the catch block leaves commitModeState as it is.
StateAfterCommitErrorUnchanged(s) == s

\* catch (e) { ... this._setState({...this._state, commitModeState: CommitModeState.READY}) }
StateAfterCommitError(s) == [s EXCEPT !.commitModeState = "READY"]

\* commit(message), up to its await; without an active stack the invariant throws.
commit(message) ==
  LET awaiting == [state EXCEPT !.commitMessage = message,
                                !.commitModeState = "AWAITING_COMMIT"]
      i == Len(commits) + 1
  IN /\ Called
     /\ IF activeStack = 0
        THEN /\ commits' = Append(commits, [mode |-> awaiting.commitMode, status |-> "failed"])
             /\ notifications' = Append(notifications, CommitError(i))
             /\ state' = StateAfterCommitError(awaiting)
             /\ emissions' = <<awaiting, state'>>
             /\ UNCHANGED stackCalls
        ELSE /\ commits' = Append(commits, [mode |-> awaiting.commitMode, status |-> "pending"])
             /\ stackCalls' = Append(stackCalls, [commit |-> i, op |-> awaiting.commitMode])
             /\ state' = awaiting
             /\ emissions' = <<awaiting>>
             /\ UNCHANGED notifications
     /\ UNCHANGED <<activeStack, loads, publishLoads, repoVars, exceptDiff>>

\* activeStack.commit(message) / amend(message) resolves.
CommitResolves(i) ==
  /\ i \in 1..Len(commits)
  /\ commits[i].status = "pending"
  /\ commits' = [commits EXCEPT ![i].status = "done"]
  /\ notifications' = Append(notifications, CommitSuccess(i, commits[i].mode))
  /\ emissions' = <<>>
  /\ updated' = [ran |-> FALSE, before |-> repositoryStacks]
  /\ UNCHANGED <<state, activeStack, loads, publishLoads, stackCalls, repoVars,
                 diffCalls, exceptDiff>>

\* activeStack.commit(message) / amend(message) rejects.
CommitRejects(i) ==
  /\ i \in 1..Len(commits)
  /\ commits[i].status = "pending"
  /\ commits' = [commits EXCEPT ![i].status = "failed"]
  /\ notifications' = Append(notifications, CommitError(i))
  /\ state' = StateAfterCommitError(state)
  /\ emissions' = <<state'>>
  /\ updated' = [ran |-> FALSE, before |-> repositoryStacks]
  /\ UNCHANGED <<activeStack, loads, publishLoads, stackCalls, repoVars,
                 diffCalls, exceptDiff>>

\* What atom.project.getRepositories() returns: Mercurial and Git repositories, and
\* null for a directory without a repository; a repository can be there twice.
HgRepositories == {"hg1", "hg2"}
Projects == {<<>>, <<"hg1">>, <<"null", "hg1">>, <<"hg1", "hg2">>, <<"git1", "hg2">>,
             <<"hg2", "hg2">>}
Files == {"a.js"}

\* repository != null && repository.getType() === 'hg'
IsHg(repository) == repository # "null" /\ repository \in HgRepositories

\* new Set(atom.project.getRepositories().filter(...)), in insertion order
RECURSIVE HgSetOf(_)
HgSetOf(repositories) ==
  IF repositories = <<>> THEN <<>>
  ELSE LET front == HgSetOf(SubSeq(repositories, 1, Len(repositories) - 1))
           last == repositories[Len(repositories)]
       IN IF IsHg(last) /\ \A i \in 1..Len(front) : front[i] # last
          THEN Append(front, last) ELSE front

Range(seq) == {seq[i] : i \in 1..Len(seq)}
Values(map) == {map[key] : key \in DOMAIN map}

\* Variant: a repository that left the project keeps its stack.
KeptAll(stacks, repositories) == DOMAIN stacks

\* for (const [repository, repositoryStack] of this._repositoryStacks): the ones kept
Kept(stacks, repositories) == DOMAIN stacks \cap Range(repositories)

\* _updateRepositories(), without its _updateDirtyChangedStatus(): the maps after it.
\* The n-th repository to get a stack gets the stack and the subscriptions created + n.
UpdatedRepositories ==
  LET repositories == HgSetOf(project')
      kept == Kept(repositoryStacks, repositories)
      removed == DOMAIN repositoryStacks \ kept
      new == SelectSeq(repositories, LAMBDA r : r \notin DOMAIN repositoryStacks)
      rank(r) == CHOOSE n \in 1..Len(new) : new[n] = r
  IN [stacks |-> [r \in kept \cup Range(new) |->
                    IF r \in kept THEN repositoryStacks[r] ELSE created + rank(r)],
      subscriptions |-> [r \in (DOMAIN repositorySubscriptions \ removed) \cup Range(new) |->
                    IF r \in Range(new) THEN created + rank(r)
                    ELSE repositorySubscriptions[r]],
      disposed |-> [disposed EXCEPT
                      !.stacks = @ \cup {repositoryStacks[r] : r \in removed},
                      !.subscriptions = @ \cup {repositorySubscriptions[r] : r \in removed}],
      created |-> created + Len(new)]

\* map.union(...stacks.map(stack => stack.getDirtyFileChanges())) and the same for
\* getCommitMergeFileChanges()
DirtyFileChanges(stacks) ==
  {c \in [repository : DOMAIN stacks, file : Files] :
     c.file \in stackFiles'[c.repository].dirty}
CommitMergeFileChanges(stacks) ==
  {c \in [repository : DOMAIN stacks, file : Files] :
     c.file \in stackFiles'[c.repository].commitMerge}

\* _updateRepositories()
UpdateRepositories ==
  /\ updated' = [ran |-> TRUE, before |-> repositoryStacks]
  /\ repositoryStacks' = UpdatedRepositories.stacks
  /\ repositorySubscriptions' = UpdatedRepositories.subscriptions
  /\ disposed' = UpdatedRepositories.disposed
  /\ created' = UpdatedRepositories.created
  /\ state' = UpdateCompareChangedStatus(state, DirtyFileChanges(repositoryStacks'),
                                         state.commitMergeFileChanges)
  /\ emissions' = <<state'>>

\* The state a new DiffViewModel starts from (before its first _updateRepositories()).
InitialState ==
  [viewMode |-> "BROWSE_MODE", commitMessage |-> Null, commitMode |-> "COMMIT",
   commitModeState |-> "READY", publishMessage |-> Null, publishModeState |-> "READY",
   dirtyFileChanges |-> {}, commitMergeFileChanges |-> {}, compareFileChanges |-> {}]

NoStacks == [r \in {} |-> 0]
NoFiles == [r \in HgRepositories |-> [dirty |-> {}, commitMerge |-> {}]]

\* new DiffViewModel(uiProviders), in a project with these repositories
DiffConstructed(repositories, templateMessage) ==
  LET hg == HgSetOf(repositories)
  IN /\ state = InitialState
     /\ emissions = <<InitialState>>
     /\ activeStack = 0
     /\ loads = {}
     /\ publishLoads = 0
     /\ commits = <<>>
     /\ stackCalls = <<>>
     /\ notifications = <<>>
     /\ template = templateMessage
     /\ project = repositories
     /\ repositoryStacks = [r \in Range(hg) |-> CHOOSE n \in 1..Len(hg) : hg[n] = r]
     /\ repositorySubscriptions = [r \in Range(hg) |-> CHOOSE n \in 1..Len(hg) : hg[n] = r]
     /\ disposed = [stacks |-> {}, subscriptions |-> {}, model |-> FALSE]
     /\ created = Len(hg)
     /\ isActive = FALSE
     /\ stackFiles = NoFiles
     /\ updated = [ran |-> TRUE, before |-> NoStacks]
     /\ diffCalls = 0

DiffIdle == DiffConstructed(<<>>, Null)

\* atom.project.onDidChangePaths(this._updateRepositories.bind(this))
ProjectPathsChange(repositories) ==
  /\ diffCalls < MaxDiffCalls
  /\ diffCalls' = diffCalls + 1
  /\ repositories # project
  /\ project' = repositories
  /\ stackFiles' = stackFiles
  /\ IF disposed.model
     THEN /\ updated' = [ran |-> FALSE, before |-> repositoryStacks]
          /\ emissions' = <<>>
          /\ UNCHANGED <<state, repositoryStacks, repositorySubscriptions, disposed, created>>
     ELSE UpdateRepositories
  /\ UNCHANGED <<activeStack, loads, publishLoads, commitVars, notifications, template,
                 isActive, exceptDiff>>

\* activate()
activate ==
  /\ diffCalls < MaxDiffCalls
  /\ diffCalls' = diffCalls + 1
  /\ UNCHANGED <<project, stackFiles>>
  /\ UpdateRepositories
  /\ isActive' = TRUE
  /\ UNCHANGED <<activeStack, loads, publishLoads, commitVars, notifications, template,
                 exceptDiff>>

\* deactivate()
deactivate ==
  /\ Called
  /\ isActive' = FALSE
  /\ activeStack' = 0
  /\ emissions' = <<>>
  /\ UNCHANGED <<state, loads, publishLoads, commitVars, notifications, template, project,
                 repositoryStacks, repositorySubscriptions, disposed, created, stackFiles,
                 exceptDiff>>

\* dispose()
dispose ==
  /\ Called
  /\ ~disposed.model
  /\ disposed' = [stacks |-> disposed.stacks \cup Values(repositoryStacks),
                  subscriptions |-> disposed.subscriptions \cup Values(repositorySubscriptions),
                  model |-> TRUE]
  /\ repositoryStacks' = NoStacks
  /\ repositorySubscriptions' = NoStacks
  /\ emissions' = <<>>
  /\ UNCHANGED <<state, activeStack, loads, publishLoads, commitVars, notifications,
                 template, project, created, isActive, stackFiles, exceptDiff>>

\* _setActiveRepositoryStack(repositoryStack), up to its await
setActiveRepositoryStack(repository) ==
  /\ Called
  /\ repository \in DOMAIN repositoryStacks
  /\ repositoryStacks[repository] # activeStack
  /\ activeStack' = repositoryStacks[repository]
  /\ emissions' = <<>>
  /\ UNCHANGED <<state, loads, publishLoads, commitVars, notifications, repoVars, exceptDiff>>

\* The revisions of the active stack changed, or were fetched for a new active
\* stack: _updateChangedRevisions(...) runs _onUpdateRevisionsState(...)
ChangeRevisions ==
  LET load == LoadModeState(state)
  IN /\ Called
     /\ activeStack \in Values(repositoryStacks)
     /\ emissions' = load.states
     /\ state' = IF load.states = <<>> THEN state ELSE Last(load.states)
     /\ loads' = loads \cup load.awaiting
     /\ publishLoads' = publishLoads + load.publishing
     /\ notifications' = notifications \o load.notes
     /\ UNCHANGED <<activeStack, commitVars, repoVars, exceptDiff>>

\* The await of a _loadPublishModeState() ends: without an active stack it throws,
\* else it sets the publish state from the head revision.
PublishLoadSettles ==
  /\ publishLoads > 0
  /\ publishLoads' = publishLoads - 1
  /\ updated' = [ran |-> FALSE, before |-> repositoryStacks]
  /\ IF activeStack = 0
     THEN /\ notifications' = Append(notifications, InternalError)
          /\ emissions' = <<>>
          /\ UNCHANGED state
     ELSE /\ state' = [state EXCEPT !.publishModeState = "READY",
                                    !.publishMessage = Str(<<>>)]
          /\ emissions' = <<state'>>
          /\ UNCHANGED notifications
  /\ UNCHANGED <<activeStack, loads, commitVars, repoVars, diffCalls, exceptDiff>>

\* setViewMode(viewMode)
setViewMode(viewMode) ==
  LET changed == [state EXCEPT !.viewMode = viewMode]
      compared == UpdateCompareChangedStatus(changed, changed.dirtyFileChanges,
                                             changed.commitMergeFileChanges)
      load == LoadModeState(compared)
  IN /\ Called
     /\ viewMode # state.viewMode
     /\ emissions' = <<changed, compared>> \o load.states
     /\ state' = Last(emissions')
     /\ loads' = loads \cup load.awaiting
     /\ publishLoads' = publishLoads + load.publishing
     /\ notifications' = notifications \o load.notes
     /\ UNCHANGED <<activeStack, commitVars, repoVars, exceptDiff>>

\* setPublishMessage(publishMessage)
setPublishMessage(publishMessage) ==
  /\ Called
  /\ state' = [state EXCEPT !.publishMessage = publishMessage]
  /\ emissions' = <<state'>>
  /\ UNCHANGED <<activeStack, loads, publishLoads, commitVars, notifications, repoVars,
                 exceptDiff>>

\* A stack reports other dirty files: repositoryStack.onDidUpdateDirtyFileChanges
StackUpdatesDirty(repository, files) ==
  /\ Called
  /\ repository \in DOMAIN repositoryStacks
  /\ files # stackFiles[repository].dirty
  /\ stackFiles' = [stackFiles EXCEPT ![repository].dirty = files]
  /\ state' = UpdateCompareChangedStatus(state, DirtyFileChanges(repositoryStacks),
                                         state.commitMergeFileChanges)
  /\ emissions' = <<state'>>
  /\ UNCHANGED <<activeStack, loads, publishLoads, commitVars, notifications, template,
                 project, repositoryStacks, repositorySubscriptions, disposed, created,
                 isActive, exceptDiff>>

\* A stack reports other commit-merge files: onDidUpdateCommitMergeFileChanges
StackUpdatesCommitMerge(repository, files) ==
  /\ Called
  /\ repository \in DOMAIN repositoryStacks
  /\ files # stackFiles[repository].commitMerge
  /\ stackFiles' = [stackFiles EXCEPT ![repository].commitMerge = files]
  /\ state' = UpdateCompareChangedStatus(state, state.dirtyFileChanges,
                                         CommitMergeFileChanges(repositoryStacks))
  /\ emissions' = <<state'>>
  /\ UNCHANGED <<activeStack, loads, publishLoads, commitVars, notifications, template,
                 project, repositoryStacks, repositorySubscriptions, disposed, created,
                 isActive, exceptDiff>>

NextDiff ==
  \/ \E mode \in CommitModes : setCommitMode(mode)
  \/ \E load \in loads : LoadResolves(load)
  \/ \E load \in loads : LoadRejects(load)
  \/ \E message \in CommitMessages : commit(message)
  \/ \E i \in 1..Len(commits) : CommitResolves(i)
  \/ \E i \in 1..Len(commits) : CommitRejects(i)
  \/ \E repositories \in Projects : ProjectPathsChange(repositories)
  \/ activate
  \/ deactivate
  \/ dispose
  \/ \E repository \in HgRepositories : setActiveRepositoryStack(repository)
  \/ ChangeRevisions
  \/ PublishLoadSettles
  \/ \E viewMode \in DiffModes : setViewMode(viewMode)
  \/ setPublishMessage(Str(<<"Publish">>))
  \/ \E repository \in HgRepositories, files \in SUBSET Files :
       StackUpdatesDirty(repository, files)
  \/ \E repository \in HgRepositories, files \in SUBSET Files :
       StackUpdatesCommitMerge(repository, files)

(***************************************************************************)
(* ASL records: createMessage                                              *)
(***************************************************************************)
\* A JavaScript value of a record's field: a string, a number or undefined, with
\* the text that `${value}` gives.
JsString(text) == [type |-> "string", value |-> text]
JsNumber(text) == [type |-> "number", value |-> text]
JsUndefined == [type |-> "undefined", value |-> "undefined"]

\* record.Level: the eight ASL levels, and what else a record may carry.
AslLevels ==
  {JsString(l) : l \in {"0", "1", "2", "3", "4", "5", "6", "7"}} \cup
  {JsString(l) : l \in {"8", "", "07", "error"}} \cup
  {JsNumber("3"), JsNumber("7"), JsUndefined}

\* record.Message
AslMessages == {"", "Started", "line 1\nline 2", "Invalid ASL level: 9"}

AslRecords == [Level : AslLevels, Message : AslMessages]

NoResult == [kind |-> "none", text |-> "", level |-> "", error |-> <<>>]
Returned(text, level) == [kind |-> "returned", text |-> text, level |-> level, error |-> <<>>]
Threw(error) == [kind |-> "threw", text |-> "", level |-> "", error |-> error]

\* Variant: a level that is not known is taken as 'debug'.
getLevelOrDebug(level) ==
  CASE level \in {JsString("0"), JsString("1"), JsString("2"), JsString("3")} -> "error"
    [] level = JsString("4") -> "warning"
    [] level = JsString("5") -> "log"
    [] level = JsString("6") -> "info"
    [] OTHER -> "debug"

\* getLevel(level): the level, or "" where the switch reaches its default and throws
getLevel(level) ==
  CASE level \in {JsString("0"), JsString("1"), JsString("2"), JsString("3")} -> "error"
    [] level = JsString("4") -> "warning"
    [] level = JsString("5") -> "log"
    [] level = JsString("6") -> "info"
    [] level = JsString("7") -> "debug"
    [] OTHER -> ""

\* createMessage(record)
createMessage(record) ==
  IF getLevel(record.Level) = ""
  THEN Threw(<<"Invalid ASL level: ", record.Level.value>>)
  ELSE Returned(record.Message, getLevel(record.Level))

AslStart(record) ==
  /\ aslRecord = record
  /\ aslResult = NoResult

AslIdle == AslStart([Level |-> JsString("0"), Message |-> ""])

\* createMessage is called with the record.
CreateMessage ==
  /\ aslResult = NoResult
  /\ aslResult' = createMessage(aslRecord)
  /\ UNCHANGED <<aslRecord, exceptAsl>>

NextAsl == CreateMessage

(***************************************************************************)
(* getUndeclaredJSXIdentifiers                                             *)
(***************************************************************************)
\* The names that the two helpers can return.
Identifiers == {"React", "Foo", "Bar", "baz"}

\* Variant: every JSX identifier is taken as undeclared.
IsUndeclaredAlways(id, declared) == TRUE

\* !declaredIdentifiers.has(id)
IsUndeclared(id, declared) == id \notin declared

\* const declaredIdentifiers = ...; const jsxIdentifiers = ...; const undeclared = new Set()
JsxStart(declared, jsx) ==
  /\ declaredIdentifiers = declared
  /\ jsxIdentifiers = jsx
  /\ visited = {}
  /\ undeclared = {}
  /\ jsxReturned = FALSE

JsxIdle == JsxStart({}, {})

\* for (const id of jsxIdentifiers) { if (...) { undeclared.add(id); } }: one turn
LoopTurn(id) ==
  /\ ~jsxReturned
  /\ id \in jsxIdentifiers \ visited
  /\ visited' = visited \cup {id}
  /\ undeclared' = IF IsUndeclared(id, declaredIdentifiers)
                   THEN undeclared \cup {id} ELSE undeclared
  /\ UNCHANGED <<declaredIdentifiers, jsxIdentifiers, jsxReturned, exceptJsx>>

\* return undeclared
ReturnUndeclared ==
  /\ ~jsxReturned
  /\ visited = jsxIdentifiers
  /\ jsxReturned' = TRUE
  /\ UNCHANGED <<declaredIdentifiers, jsxIdentifiers, visited, undeclared, exceptJsx>>

NextJsx ==
  \/ \E id \in Identifiers : LoopTurn(id)
  \/ ReturnUndeclared

(***************************************************************************)
(* fuzzy-native: main.js                                                   *)
(***************************************************************************)
\* What require('../VendorLib/fuzzy-native') does on this machine: it loads, or it
\* throws one of these errors.
NativeOutcomes ==
  {"loads", "Cannot find module '../VendorLib/fuzzy-native'", "invalid ELF header",
   "Module version mismatch"}

\* What require('./FallbackMatcher') does.
FallbackOutcomes == {"loads", "Cannot find module './FallbackMatcher'"}

\* The modules that require fuzzy-native.
Requirers == {"quick-open", "fuzzy-file-search"}

NotEvaluating == [pc |-> "idle", for |-> ""]

FuzzyStart(native, fallback) ==
  /\ nativeLoad = native
  /\ fallbackLoad = fallback
  /\ moduleCache = "none"
  /\ evaluation = NotEvaluating
  /\ logged = <<>>
  /\ required = <<>>

FuzzyIdle == FuzzyStart("loads", "loads")

Got(who, exports) == [who |-> who, exports |-> exports, threw |-> ""]
GotError(who, error) == [who |-> who, exports |-> "", threw |-> error]

\* Variant: the failure is logged twice.
LoggedTwiceOnFailure(e) ==
  <<[message |-> "Failed to load native fuzzy matching. Falling back to JS implementation",
     error |-> e],
    [message |-> "Failed to load native fuzzy matching. Falling back to JS implementation",
     error |-> e]>>

\* logger.error('Failed to load native fuzzy matching. Falling back to JS implementation', e)
LoggedOnFailure(e) ==
  <<[message |-> "Failed to load native fuzzy matching. Falling back to JS implementation",
     error |-> e]>>

\* require('fuzzy-native'): the cached exports, or main.js is evaluated
Require(who) ==
  /\ evaluation = NotEvaluating
  /\ Len(required) < MaxRequires
  /\ IF moduleCache # "none"
     THEN /\ required' = Append(required, Got(who, moduleCache))
          /\ UNCHANGED evaluation
     ELSE /\ evaluation' = [pc |-> "try", for |-> who]
          /\ UNCHANGED required
  /\ UNCHANGED <<nativeLoad, fallbackLoad, moduleCache, logged, exceptFuzzy>>

\* try { module.exports = require('../VendorLib/fuzzy-native'); }
TryNative ==
  /\ evaluation.pc = "try"
  /\ IF nativeLoad = "loads"
     THEN /\ moduleCache' = "fuzzy-native"
          /\ required' = Append(required, Got(evaluation.for, "fuzzy-native"))
          /\ evaluation' = NotEvaluating
     ELSE /\ evaluation' = [evaluation EXCEPT !.pc = "catch"]
          /\ UNCHANGED <<moduleCache, required>>
  /\ UNCHANGED <<nativeLoad, fallbackLoad, logged, exceptFuzzy>>

\* catch (e) { logger.error(...)
CatchLogs ==
  /\ evaluation.pc = "catch"
  /\ logged' = logged \o LoggedOnFailure(nativeLoad)
  /\ evaluation' = [evaluation EXCEPT !.pc = "fallback"]
  /\ UNCHANGED <<nativeLoad, fallbackLoad, moduleCache, required, exceptFuzzy>>

\* module.exports = require('./FallbackMatcher'); } A module whose evaluation throws
\* is not kept in the require cache.
RequireFallback ==
  /\ evaluation.pc = "fallback"
  /\ IF fallbackLoad = "loads"
     THEN /\ moduleCache' = "FallbackMatcher"
          /\ required' = Append(required, Got(evaluation.for, "FallbackMatcher"))
     ELSE /\ required' = Append(required, GotError(evaluation.for, fallbackLoad))
          /\ UNCHANGED moduleCache
  /\ evaluation' = NotEvaluating
  /\ UNCHANGED <<nativeLoad, fallbackLoad, logged, exceptFuzzy>>

NextFuzzy ==
  \/ \E who \in Requirers : Require(who)
  \/ TryNative
  \/ CatchLogs
  \/ RequireFallback

(***************************************************************************)
(* Specifications, one per piece                                           *)
(***************************************************************************)
\* The other pieces, untouched.
IdleExceptRegistry ==
  /\ ProxyIdle /\ ChildConstructed /\ RunnerIdle /\ DiffIdle
  /\ AslIdle /\ JsxIdle /\ FuzzyIdle
IdleExceptProxy ==
  /\ RegistryIdle /\ ChildConstructed /\ RunnerIdle /\ DiffIdle
  /\ AslIdle /\ JsxIdle /\ FuzzyIdle
IdleExceptChild ==
  /\ RegistryIdle /\ ProxyIdle /\ RunnerIdle /\ DiffIdle
  /\ AslIdle /\ JsxIdle /\ FuzzyIdle
IdleExceptRunner ==
  /\ RegistryIdle /\ ProxyIdle /\ ChildConstructed /\ DiffIdle
  /\ AslIdle /\ JsxIdle /\ FuzzyIdle
IdleExceptDiff ==
  /\ RegistryIdle /\ ProxyIdle /\ ChildConstructed /\ RunnerIdle
  /\ AslIdle /\ JsxIdle /\ FuzzyIdle
IdleExceptAsl ==
  /\ RegistryIdle /\ ProxyIdle /\ ChildConstructed /\ RunnerIdle
  /\ DiffIdle /\ JsxIdle /\ FuzzyIdle
IdleExceptJsx ==
  /\ RegistryIdle /\ ProxyIdle /\ ChildConstructed /\ RunnerIdle
  /\ DiffIdle /\ AslIdle /\ FuzzyIdle
IdleExceptFuzzy ==
  /\ RegistryIdle /\ ProxyIdle /\ ChildConstructed /\ RunnerIdle
  /\ DiffIdle /\ AslIdle /\ JsxIdle

InitRegistry == RegistryIdle /\ IdleExceptRegistry
SpecRegistry == InitRegistry /\ [][NextRegistry]_vars

InitProxy == ProxyIdle /\ IdleExceptProxy
SpecProxy == InitProxy /\ [][NextProxy]_vars

InitChild == ChildConstructed /\ IdleExceptChild
SpecChild == InitChild /\ [][NextChild]_vars

InitRunner == (\E args \in CommandLines : RunnerStart(args)) /\ IdleExceptRunner
SpecRunner == InitRunner /\ [][NextRunner]_vars

InitDiff ==
  /\ \E repositories \in Projects, templateMessage \in Templates :
       DiffConstructed(repositories, templateMessage)
  /\ IdleExceptDiff
SpecDiff == InitDiff /\ [][NextDiff]_vars

InitAsl == (\E record \in AslRecords : AslStart(record)) /\ IdleExceptAsl
SpecAsl == InitAsl /\ [][NextAsl]_vars

InitJsx ==
  /\ \E declared \in SUBSET Identifiers, jsx \in SUBSET Identifiers : JsxStart(declared, jsx)
  /\ IdleExceptJsx
SpecJsx == InitJsx /\ [][NextJsx]_vars

InitFuzzy ==
  /\ \E native \in NativeOutcomes, fallback \in FallbackOutcomes : FuzzyStart(native, fallback)
  /\ IdleExceptFuzzy
SpecFuzzy == InitFuzzy /\ [][NextFuzzy]_vars

\* The Child when the reactions on the fork promise run back to back (one job
\* after the other with no other callback in between): calls and process events
\* happen only while no notification of process$ is outstanding.
SpecChildBackToBack == InitChild /\ [][NextChildBackToBack]_vars

(***************************************************************************)
(* Claims about the RemoteConnection registry                              *)
(***************************************************************************)
\* The connections registered for host h whose root directory is p or an ancestor of p.
Matching(h, p) ==
  {c \in {connections[h].conns[i] : i \in 1..Len(connections[h].conns)} :
     connections[h].present /\ c.host = h /\ IsPrefix(c.root, p)}

\* C1: when a connection is registered for the host with a root directory that is
\* the path itself or one of its ancestors, getByHostnameAndPath returns such a
\* registered connection (never undefined).
C1_ReturnsMatchingConnection ==
  (lookup.via = "getByHostnameAndPath" /\ Matching(lookup.host, lookup.path) # {})
    => lookup.result \in Matching(lookup.host, lookup.path)

C1_Witness ==
  /\ lookup.via = "getByHostnameAndPath"
  /\ lookup.result.kind = "connection"
  /\ Len(lookup.path) > Len(lookup.result.root)
  /\ Len(lookup.result.root) > 0

Positions(ev) == {i \in 1..Len(trace) : trace[i] = ev}

\* C4 (as stated): a call whose returned promise resolved has marshalled its
\* arguments, then called the remote function, then deserialized the result.
C4_ThreeSteps ==
  returned.state = "resolved" =>
    \E i \in Positions("marshal"), j \in Positions("callRemoteFunction"),
       k \in Positions("unmarshal") : i < j /\ j < k

\* C4 (amended): a call whose returned promise resolved has started and completed
\* the marshalling of every argument, then called the remote function once, and
\* then resolved with the value callRemoteFunction resolved to, as it is: nothing
\* deserializes the result of these void functions.
C4_MarshalThenCall ==
  returned.state = "resolved" =>
    /\ Cardinality(Positions("marshal")) = Len(proxyCall.args)
    /\ Cardinality(Positions("marshalled")) = Len(proxyCall.args)
    /\ Cardinality(Positions("callRemoteFunction")) = 1
    /\ \A j \in Positions("callRemoteFunction") :
          /\ \A i \in Positions("marshal") \cup Positions("marshalled") : i < j
          /\ \A k \in Positions("resolved") : j < k
    /\ Positions("unmarshal") = {}
    /\ returned.value = remoteResult.value
    /\ returned.value \in RemoteValues

C4_Witness ==
  /\ returned.state = "resolved"
  /\ proxyCall.fn = "UnionFunc"
  /\ settleOrder = <<2, 1>>

\* C5: for a proxy function call, callRemoteFunction is invoked at most once and
\* only when every argument's marshalling has resolved, with the name
\* UnionTypes/<function> and the marshalled arguments by declared position; a call
\* whose returned promise resolved invoked it exactly once.
C5_CallOnceAfterMarshalInOrder ==
  InFlight =>
    /\ Len(remoteCalls) <= 1
    /\ (returned.state = "resolved" => Len(remoteCalls) = 1)
    /\ \A c \in 1..Len(remoteCalls) :
          /\ \A i \in 1..Len(marshalled) : marshalled[i].state = "resolved"
          /\ remoteCalls[c].name = <<"UnionTypes", proxyCall.fn>>
          /\ remoteCalls[c].args =
               [i \in 1..Len(proxyCall.args) |->
                  Marshal(proxyCall.args[i], ArgTypes[proxyCall.fn][i])]

C5_Witness ==
  /\ proxyCall.fn = "UnionFunc"
  /\ proxyCall.args[1] # proxyCall.args[2]
  /\ settleOrder = <<2, 1>>
  /\ Len(remoteCalls) = 1

\* C20: once the marshalling of an argument has rejected, callRemoteFunction is not
\* invoked and the returned promise is rejected with that error, or is about to be
\* (its rejection is the one step left for it); once callRemoteFunction has
\* rejected, the returned promise is rejected with its error and callRemoteFunction
\* was invoked once, not again.
C20_RejectionsReject ==
  InFlight =>
    /\ (\E i \in 1..Len(marshalled) : marshalled[i].state = "rejected") =>
         /\ remoteCalls = <<>>
         /\ remoteResult = Pending
         /\ returned \in {Pending, Rejected("marshal error")}
         /\ returned = Pending => ENABLED AllRejects
         /\ ~ENABLED ThenCallRemoteFunction
    /\ remoteResult.state = "rejected" =>
         /\ returned = remoteResult
         /\ Len(remoteCalls) = 1
         /\ ~ENABLED ThenCallRemoteFunction

C20_Witness ==
  /\ proxyCall.fn = "UnionFunc"
  /\ marshalled[1].state = "resolved"
  /\ marshalled[2].state = "rejected"
  /\ returned = Rejected("marshal error")

(***************************************************************************)
(* Claims about Child                                                      *)
(***************************************************************************)
\* Every subscriber of process$ has been notified and the send chain forwards.
Settled == fork = "resolved" /\ procSubs = <<>> /\ input.phase = "open"

Sent == {sent[i] : i \in 1..Len(sent)}

\* C6: a message issued before the executor process is available is buffered, not
\* sent before the process exists, and sent once the process is available: when
\* the pipeline has settled every such early message has been sent.
C6_EarlyMessagesSent ==
  /\ (fork = "pending" => sent = <<>> /\ input.window = issued)
  /\ (Settled => \A i \in 1..issuedEarly : issued[i] \in Sent)

\* C7: every issued message is passed to process.send exactly once, in the order
\* of the calls: what has been sent is always a duplicate-free subsequence of what
\* was issued in the same order, and once the pipeline has settled it is all of it.
C7_AllSentOnceInOrder ==
  /\ \A i, j \in 1..Len(sent) : i < j => sent[i].id < sent[j].id
  /\ Sent \subseteq {issued[i] : i \in 1..Len(issued)}
  /\ (Settled => sent = issued)

ScriptIds == {issued[i].id : i \in {k \in 1..Len(issued) : issued[k].op = "evalScript"}}

ScriptRepliesReceived == {k \in 1..Len(received) : received[k].message.replyId \in ScriptIds}

\* C8 (as stated): for every execScript call, the arrival of the reply with its id
\* emits 'eval_application_script' with the pid: one emission per such reply.
C8_EmittedForEveryExecScript ==
  /\ Len(emitted) = Cardinality(ScriptRepliesReceived)
  /\ \A k \in 1..Len(emitted) : emitted[k] = ProcessPid

\* The replies that arrived while their id was Child._execScriptMessageId.
MatchingReplies == {k \in 1..Len(received) : received[k].message.replyId = received[k].scriptId}

\* C8 (amended): 'eval_application_script' is emitted at most once per Child, with
\* the pid of the executor process: exactly when a first reply has arrived whose
\* replyId equalled the id of the latest execScript call at that moment.
C8_EmittedOnceOnFirstMatch ==
  /\ Len(emitted) <= 1
  /\ \A k \in 1..Len(emitted) : emitted[k] = ProcessPid
  /\ (Len(emitted) = 1 <=> MatchingReplies # {})

C8_Witness ==
  /\ Len(emitted) = 1
  /\ Cardinality(ScriptRepliesReceived) = 2
  /\ Cardinality(MatchingReplies) = 2

\* C9: every 'message' event of the executor process results in exactly one
\* onReply(message.replyId, message.result) call, in the order received, whether
\* or not the message also triggered 'eval_application_script'.
C9_OneReplyPerMessage ==
  replies = [k \in 1..Len(received) |->
               <<received[k].message.replyId, received[k].message.result>>]

C9_Witness ==
  /\ Len(replies) >= 2
  /\ Len(emitted) = 1
  /\ \E k \in 1..Len(received) : k \notin MatchingReplies

\* C10: process.kill() is called only once the forked process exists, also when
\* kill() was called before the fork promise resolved, and a promise returned by
\* kill() is resolved only after the process emitted 'close'.
C10_KillAfterForkResolveAfterClose ==
  /\ (proc.killCalls > 0 => fork = "resolved")
  /\ proc.killCalls <= kills.made
  /\ (kills.resolved > 0 => proc.closed /\ closedPromise = "resolved")

C10_Witness ==
  /\ kills.early = 1
  /\ proc.killCalls = 1
  /\ kills.resolved = 1

(***************************************************************************)
(* Claims about the atom-script runner                                     *)
(***************************************************************************)
\* C11: what is written to stdout is exactly the data received on the domain
\* socket (less the chunks that start with 'Window load time: '), in order, and
\* nothing else; everything the Atom process wrote to its stdout or stderr has been
\* written to stderr, in order, and none of it to stdout.
C11_StdoutOnlyFromSocket ==
  /\ \A i \in 1..Len(stdoutLog) : stdoutLog[i].from = "socket"
  /\ [i \in 1..Len(stdoutLog) |-> stdoutLog[i].data] = SelectSeq(socketIn, IsForwarded)
  /\ LET fromAtom(w) == w.from \in {"stdout", "stderr"}
         atomPart == SelectSeq(stderrLog, fromAtom)
     IN [i \in 1..Len(atomPart) |-> [stream |-> atomPart[i].from, data |-> atomPart[i].data]]
          = atomWrote

C11_Witness ==
  /\ Len(stdoutLog) > 0
  /\ Len(socketIn) > Len(stdoutLog)
  /\ \E i \in 1..Len(atomWrote) : atomWrote[i].stream = "stdout"

\* C12 (as stated): the runner exits when the Atom process closes, with the code
\* Atom closed with, and with the server closed; without a string first argument
\* it prints an error and exits with code 1.
C12_ExitsWithAtomCode ==
  /\ (runner.atom = "closed" =>
        runner.pc = "exited" /\ runner.exitCode = runner.atomCode /\ runner.server = "closed")
  /\ (runner.pc = "exited" /\ argv # <<>> => runner.atom = "closed")
  /\ (runner.pc = "exited" /\ argv = <<>> => runner.exitCode = <<1>> /\ Len(stderrLog) = 1)

\* What the runner does: as C12 states, except that when a signal ended Atom (the
\* close code is null) the runner exits with code 0.
ExitsWithAtomCodeOrZero ==
  /\ (runner.atom = "closed" =>
        /\ runner.pc = "exited"
        /\ runner.server = "closed"
        /\ runner.exitCode = IF runner.atomCode = <<>> THEN <<0>> ELSE runner.atomCode)
  /\ (runner.pc = "exited" /\ argv # <<>> => runner.atom = "closed")
  /\ (runner.pc = "exited" /\ argv = <<>> =>
        /\ runner.exitCode = <<1>>
        /\ Len(stderrLog) = 1
        /\ runner.atom = "none")
  /\ (argv = <<>> => runner.pc \in {"load", "exited"})

(***************************************************************************)
(* Claims about the DiffViewModel                                          *)
(***************************************************************************)
Failed(i) == commits'[i].status = "failed" /\ (i > Len(commits) \/ commits[i].status # "failed")

\* C13: in the step in which a commit(message) fails (its commit or amend rejects,
\* or there is no active repository stack) exactly one notification is added, the
\* error of that commit; no commit or amend is called again for it; and
\* state.commitModeState is READY after it. Never is a success added for a commit
\* that failed.
C13_FailedCommitNotifiesOnce ==
  [][\A i \in 1..Len(commits') : Failed(i) =>
       /\ notifications' = Append(notifications, CommitError(i))
       /\ state'.commitModeState = "READY"
       /\ \A c \in 1..Len(stackCalls') : stackCalls'[c].commit = i => c <= Len(stackCalls)
       /\ Cardinality({c \in 1..Len(stackCalls') : stackCalls'[c].commit = i}) <= 1
       /\ \A n \in 1..Len(notifications') :
            notifications'[n].commit = i => notifications'[n].type = "error"]_vars

C13_Witness ==
  /\ \E i \in 1..Len(commits) : commits[i].status = "failed" /\ commits[i].mode = "AMEND"
  /\ \E c \in 1..Len(stackCalls) : stackCalls[c].op = "AMEND"
  /\ state.commitModeState = "READY"

\* C14: in the step in which the last awaiting load of the commit message
\* resolves, state.commitMessage becomes the message of the current commit mode:
\* the template for COMMIT, the description of the head revision for AMEND.
C14_MessageOfCurrentMode ==
  [][(loads # {} /\ loads' = {} /\ notifications' = notifications)
       => state'.commitMessage = LoadedMessage(state'.commitMode)]_vars

\* C18: every state a 'did-update-state' listener sees has the dirty changes as
\* compareFileChanges in COMMIT_MODE and the commit-merge changes in the other modes.
C18_CompareFollowsViewMode ==
  \A i \in 1..Len(emissions) :
    emissions[i].compareFileChanges =
      IF emissions[i].viewMode = "COMMIT_MODE"
      THEN emissions[i].dirtyFileChanges
      ELSE emissions[i].commitMergeFileChanges

\* C19: after every _updateRepositories() both maps have exactly the Mercurial
\* repositories of the project as keys; the stack and the subscriptions of every
\* repository that left are disposed; a repository that stayed has the stack it had,
\* not disposed.
C19_StacksFollowProject ==
  updated.ran =>
    /\ DOMAIN repositoryStacks = {r \in Range(project) : IsHg(r)}
    /\ DOMAIN repositorySubscriptions = DOMAIN repositoryStacks
    /\ \A r \in DOMAIN updated.before \ DOMAIN repositoryStacks :
         /\ updated.before[r] \in disposed.stacks
         /\ updated.before[r] \in disposed.subscriptions
    /\ \A r \in DOMAIN updated.before \cap DOMAIN repositoryStacks :
         /\ repositoryStacks[r] = updated.before[r]
         /\ repositoryStacks[r] \notin disposed.stacks
         /\ repositorySubscriptions[r] \notin disposed.subscriptions

C19_Witness ==
  /\ updated.ran
  /\ DOMAIN updated.before \ DOMAIN repositoryStacks # {}
  /\ DOMAIN updated.before \cap DOMAIN repositoryStacks # {}
  /\ "null" \in Range(project)

(***************************************************************************)
(* Claims about createMessage                                              *)
(***************************************************************************)
\* C15: createMessage(record) returns a message whose text is record.Message and
\* whose level is 'error' for the Level '0', '1', '2' or '3', 'warning' for '4',
\* 'log' for '5', 'info' for '6' and 'debug' for '7'; for every other Level it
\* throws 'Invalid ASL level: ' with the level, and returns no message.
C15_MessageOrThrow ==
  aslResult # NoResult =>
    LET level == aslRecord.Level
        is(text) == level.type = "string" /\ level.value = text
        expected == IF is("0") \/ is("1") \/ is("2") \/ is("3") THEN "error"
                    ELSE IF is("4") THEN "warning"
                    ELSE IF is("5") THEN "log"
                    ELSE IF is("6") THEN "info"
                    ELSE IF is("7") THEN "debug"
                    ELSE "none"
    IN IF expected = "none"
       THEN /\ aslResult.kind = "threw"
            /\ aslResult.error = <<"Invalid ASL level: ", level.value>>
       ELSE /\ aslResult.kind = "returned"
            /\ aslResult.text = aslRecord.Message
            /\ aslResult.level = expected

C15_Witness ==
  /\ aslResult.kind = "threw"
  /\ aslRecord.Level = JsNumber("3")
  /\ aslRecord.Message # ""

(***************************************************************************)
(* Claims about getUndeclaredJSXIdentifiers                                *)
(***************************************************************************)
\* C16: the set getUndeclaredJSXIdentifiers returns is exactly the JSX identifiers
\* that are not declared identifiers.
C16_JsxMinusDeclared ==
  jsxReturned => undeclared = jsxIdentifiers \ declaredIdentifiers

C16_Witness ==
  /\ jsxReturned
  /\ undeclared # {}
  /\ jsxIdentifiers \cap declaredIdentifiers # {}
  /\ declaredIdentifiers \ jsxIdentifiers # {}

(***************************************************************************)
(* Claims about fuzzy-native                                               *)
(***************************************************************************)
\* C17: where the native matcher loads, every require of fuzzy-native gets it and
\* nothing is logged; where its load throws, one error is logged, with what was
\* thrown, and every require gets the FallbackMatcher (as long as that one loads);
\* what the native load threw is never thrown to a requirer.
C17_NativeOrFallback ==
  /\ \A i \in 1..Len(required) :
       /\ nativeLoad = "loads" => required[i] = Got(required[i].who, "fuzzy-native")
       /\ (nativeLoad # "loads" /\ fallbackLoad = "loads")
            => required[i] = Got(required[i].who, "FallbackMatcher")
       /\ nativeLoad # "loads" => required[i].threw # nativeLoad
  /\ nativeLoad = "loads" => logged = <<>>
  /\ (nativeLoad # "loads" /\ fallbackLoad = "loads") =>
       /\ Len(logged) <= 1
       /\ required # <<>> => Len(logged) = 1
  /\ \A i \in 1..Len(logged) : logged[i].error = nativeLoad
  /\ (nativeLoad # "loads" /\ fallbackLoad # "loads") =>
       Len(logged) \in {Len(required), Len(required) + 1}

C17_Witness ==
  /\ nativeLoad = "invalid ELF header"
  /\ Len(required) = MaxRequires
  /\ moduleCache = "FallbackMatcher"
  /\ Len(logged) = 1

====
